---- MODULE Spec2Model ----
(***************************************************************************)
(* GrShape (src/src/gpu/GrShape.h, src/src/gpu/GrShape.cpp): a geometric   *)
(* shape (empty, rounded rect or path) with the GrStyle it is rendered     *)
(* with, the key of its unstyled geometry, and the construction of a new   *)
(* shape by applying the style.                                            *)
(*                                                                         *)
(* The state is a small set of GrShape objects owned by a caller.  The     *)
(* caller constructs them from paths and rounded rects, copies them,       *)
(* assigns them and applies their styles.  SkPath, SkRRect, SkStrokeRec,   *)
(* SkPathEffect and GrStyle are collaborators whose code is not part of    *)
(* the two files; they are modelled by what GrShape uses of them.          *)
(*                                                                         *)
(* applyStyle returns a GrShape built by the three-argument constructor;   *)
(* the returned temporary is constructed in place (copy elision), so       *)
(* applyStyle is that constructor.                                         *)
(***************************************************************************)
EXTENDS Integers, Sequences, FiniteSets, TLC

(***************************************************************************)
(* Bounds of the model.                                                    *)
(***************************************************************************)
\* number of GrShape objects the caller owns
NumShapes == 2
\* number of paths the code may create (each gets a fresh generation id)
MaxDerived == 2
\* the scales applyStyle is called with are 1..MaxScale
MaxScale == 2

Slots == 1..NumShapes
Scales == 1..MaxScale

(***************************************************************************)
(* SkRRect: a square of the given side with one radius on every corner.    *)
(* rad = 0 is a plain rect, rad = side/2 an oval.  side = 0 is empty.      *)
(***************************************************************************)
MkRRect(side, rad) == [side |-> side, rad |-> rad]
DefaultRRect == MkRRect(0, 0)
RRectIsEmpty(rr) == rr.side = 0
SetRect(side) == MkRRect(side, 0)
SetOval(side) == MkRRect(side, side \div 2)

\* SkRRect::kSizeInMemory in bytes, and sizeof(uint32_t)
kSizeInMemory == 48
kWordBytes == 4
RRectKeyWords == kSizeInMemory \div kWordBytes

\* SkRRect::writeToMemory: the rect (l, t, r, b) then the four (x, y) radii
WriteToMemory(rr) ==
    <<0, 0, rr.side, rr.side>> \o [i \in 1..(RRectKeyWords - 4) |-> rr.rad]

(***************************************************************************)
(* SkPath: what GrShape reads of a path.  kind says which of isEmpty,      *)
(* isRRect, isOval, isRect answers true ("general": none); closed says     *)
(* that every contour is closed (for a rectangle it is isRect's closed     *)
(* flag); gen is getGenerationID(); vol is isVolatile().                   *)
(***************************************************************************)
MkPath(kind, side, rad, closed, gen, vol) ==
    [kind |-> kind, side |-> side, rad |-> rad, closed |-> closed,
     gen |-> gen, vol |-> vol]

\* SkTLazy<SkPath> that holds nothing
NoPath == MkPath("none", 0, 0, FALSE, 0, FALSE)
\* the generation id every empty path has
kEmptyGenID == 1
EmptyPath == MkPath("empty", 0, 0, FALSE, kEmptyGenID, FALSE)
GeneralPath(gen) == MkPath("general", 0, 0, FALSE, gen, FALSE)

\* SkPath::addRRect on a reset path: a rect, an oval or a true rrect contour
AddRRect(rr, gen) ==
    IF RRectIsEmpty(rr) THEN EmptyPath
    ELSE IF rr.rad = 0 THEN MkPath("rect", rr.side, 0, TRUE, gen, FALSE)
    ELSE IF rr.rad = rr.side \div 2 THEN MkPath("oval", rr.side, rr.rad, TRUE, gen, FALSE)
    ELSE MkPath("rrect", rr.side, rr.rad, TRUE, gen, FALSE)

SetIsVolatile(path, v) == [path EXCEPT !.vol = v]

(***************************************************************************)
(* SkStrokeRec.  width < 0 is fill, width = 0 hairline.                    *)
(***************************************************************************)
MkRec(style, cap, width, resScale) ==
    [style |-> style, cap |-> cap, width |-> width, resScale |-> resScale]
FillRec == MkRec("fill", "butt", -1, 1)
NeedToApply(rec) == rec.style \in {"stroke", "strokeAndFill"}
IsFillStyle(rec) == rec.style = "fill"
SetResScale(rec, scale) == [rec EXCEPT !.resScale = scale]
SetFillStyle(rec) == [rec EXCEPT !.style = "fill", !.width = -1]

(***************************************************************************)
(* SkPathEffect and GrStyle.                                               *)
(***************************************************************************)
NoPE == [kind |-> "none", id |-> 0]
Dash(id) == [kind |-> "dash", id |-> id]
Generic(id) == [kind |-> "generic", id |-> id]

MkStyle(pe, rec) == [pe |-> pe, rec |-> rec]
\* GrStyle()
DefaultStyle == MkStyle(NoPE, FillRec)
\* GrStyle::applies
Applies(style) == style.pe # NoPE \/ NeedToApply(style.rec)
IsDashed(style) == style.pe.kind = "dash"

(***************************************************************************)
(* SkPathEffect::filterPath(dst, src, &strokeRec, nullptr).  The outcome   *)
(* is a function of the effect: a dash effect does nothing on a fill or    *)
(* stroke-and-fill style (it returns false); dash 0 outputs a general      *)
(* path, dash 1 a path that is exactly a rounded rect, dash 2 an empty     *)
(* path, and generic 1 strokes the path itself: it outputs a general path  *)
(* and turns the stroke rec into a fill; generic 2 outputs a path that is  *)
(* exactly a rounded rect.  The output is a new path with generation id    *)
(* gen.                                                                    *)
(***************************************************************************)
kFilterSide == 4
FilterPath(pe, src, rec, gen) ==
    IF pe.kind = "dash" /\ rec.style \in {"fill", "strokeAndFill"}
    THEN [ok |-> FALSE, path |-> NoPath, rec |-> rec]
    ELSE IF pe = Dash(1) \/ pe = Generic(2)
    THEN [ok |-> TRUE, path |-> AddRRect(MkRRect(kFilterSide, 1), gen), rec |-> rec]
    ELSE IF pe = Dash(2)
    THEN [ok |-> TRUE, path |-> EmptyPath, rec |-> rec]
    ELSE IF pe = Generic(1)
    THEN [ok |-> TRUE, path |-> GeneralPath(gen), rec |-> SetFillStyle(rec)]
    ELSE [ok |-> TRUE, path |-> GeneralPath(gen), rec |-> rec]

(***************************************************************************)
(* SkStrokeRec::applyToPath(dst, src): false when there is nothing to      *)
(* apply.  Stroking an empty path gives an empty path; stroke-and-fill of  *)
(* a closed rect gives the outset rect; anything else a general path.      *)
(***************************************************************************)
StrokeRecApplyToPath(rec, src, gen) ==
    IF ~NeedToApply(rec) THEN [ok |-> FALSE, path |-> src]
    ELSE IF src.kind = "empty" THEN [ok |-> TRUE, path |-> EmptyPath]
    ELSE IF src.kind = "rect" /\ src.closed /\ rec.style = "strokeAndFill"
    THEN [ok |-> TRUE,
          path |-> MkPath("rect", src.side + rec.width, 0, TRUE, gen, FALSE)]
    ELSE [ok |-> TRUE, path |-> GeneralPath(gen)]

(***************************************************************************)
(* GrStyle::applyToPath(dst, &fillOrHairline, src, scale) for a style      *)
(* without a path effect: strokes with the rec at the given scale.         *)
(***************************************************************************)
GrStyleApplyToPath(style, src, scale, gen) ==
    LET r == StrokeRecApplyToPath(SetResScale(style.rec, scale), src, gen)
    IN  IF r.ok THEN [ok |-> TRUE, path |-> r.path, init |-> "kFill"]
        ELSE [ok |-> FALSE, path |-> src,
              init |-> IF style.rec.style = "hairline" THEN "kHairline" ELSE "kFill"]

\* GrStyle::resetToInitStyle on a default style
ResetToInitStyle(style, init) ==
    MkStyle(NoPE, IF init = "kFill" THEN SetFillStyle(style.rec)
                  ELSE [style.rec EXCEPT !.style = "hairline", !.width = 0])

(***************************************************************************)
(* GrStyle::KeySize and GrStyle::WriteKey.  The key is (path_effect,       *)
(* stroke): a dash contributes the scale, the phase and the intervals; any *)
(* other path effect has no key; with kPathEffectAndStrokeRec a stroke     *)
(* that needs applying contributes the scale, style/join/cap, miter and    *)
(* width.  With the closed flag and no path effect the cap is written as   *)
(* butt.                                                                   *)
(***************************************************************************)
kPathEffectOnly == "kPathEffectOnly"
kPathEffectAndStrokeRec == "kPathEffectAndStrokeRec"
Applys == {kPathEffectOnly, kPathEffectAndStrokeRec}

DashKey(style, scale) == <<scale, style.pe.id, 1, 1>>
StyleCode(rec) ==
    CASE rec.style = "hairline" -> 0
      [] rec.style = "fill" -> 1
      [] rec.style = "stroke" -> 2
      [] rec.style = "strokeAndFill" -> 3
CapCode(cap) == IF cap = "butt" THEN 0 ELSE 1
kMiter == 4
StrokeKey(style, scale, closed) ==
    LET cap == IF closed /\ style.pe = NoPE THEN "butt" ELSE style.rec.cap
    IN  <<scale, StyleCode(style.rec) + 16 * CapCode(cap), kMiter, style.rec.width>>

KeySize(style, apply, closed) ==
    IF ~IsDashed(style) /\ style.pe # NoPE THEN -1
    ELSE (IF IsDashed(style) THEN Len(DashKey(style, 1)) ELSE 0)
         + (IF apply = kPathEffectAndStrokeRec /\ NeedToApply(style.rec)
            THEN Len(StrokeKey(style, 1, closed)) ELSE 0)

WriteKey(style, apply, scale, closed) ==
    (IF IsDashed(style) THEN DashKey(style, scale) ELSE <<>>)
    \o (IF apply = kPathEffectAndStrokeRec /\ NeedToApply(style.rec)
        THEN StrokeKey(style, scale, closed) ELSE <<>>)

(***************************************************************************)
(* GrShape.  fPath is NoPath when the SkTLazy holds no path.  Every read   *)
(* of fRRect in GrShape.h and GrShape.cpp is under fType == kRRect, so     *)
(* what the member holds under another type is dead storage; the model     *)
(* writes DefaultRRect there.                                              *)
(***************************************************************************)
kEmpty == "kEmpty"
kRRect == "kRRect"
kPath == "kPath"

MkShape(type, rrect, path, style, key) ==
    [fType |-> type, fRRect |-> rrect, fPath |-> path, fStyle |-> style,
     fInheritedKey |-> key]

\* GrShape()
DefaultShape == MkShape(kEmpty, DefaultRRect, NoPath, DefaultStyle, <<>>)

\* AttemptToReduceFromPathImpl that reduces every rectangle, open or closed
AttemptToReduceAnyRect(path, pe, strokeRec) ==
    IF path.kind = "empty" THEN [type |-> kEmpty, rrect |-> DefaultRRect]
    ELSE IF path.kind = "rrect"
    THEN [type |-> kRRect, rrect |-> MkRRect(path.side, path.rad)]
    ELSE IF path.kind = "oval"
    THEN [type |-> kRRect, rrect |-> SetOval(path.side)]
    ELSE IF path.kind = "rect"
    THEN [type |-> kRRect, rrect |-> SetRect(path.side)]
    ELSE [type |-> kPath, rrect |-> DefaultRRect]

AttemptToReduceFromPathImpl(path, pe, strokeRec) ==
    IF path.kind = "empty" THEN [type |-> kEmpty, rrect |-> DefaultRRect]
    ELSE IF path.kind = "rrect"
    THEN [type |-> kRRect, rrect |-> MkRRect(path.side, path.rad)]
    ELSE IF path.kind = "oval"
    THEN [type |-> kRRect, rrect |-> SetOval(path.side)]
    ELSE IF path.kind = "rect" /\ (path.closed \/ (pe = NoPE /\ IsFillStyle(strokeRec)))
    THEN [type |-> kRRect, rrect |-> SetRect(path.side)]
    ELSE [type |-> kPath, rrect |-> DefaultRRect]

\* attemptToReduceFromPath that keeps the path storage of a reduced shape
AttemptToReduceFromPathKeepsPath(sh) ==
    LET r == AttemptToReduceFromPathImpl(sh.fPath, sh.fStyle.pe, sh.fStyle.rec)
    IN  [sh EXCEPT !.fType = r.type, !.fRRect = r.rrect,
                   !.fInheritedKey = IF r.type # kPath THEN <<>> ELSE @]

AttemptToReduceFromPath(sh) ==
    LET r == AttemptToReduceFromPathImpl(sh.fPath, sh.fStyle.pe, sh.fStyle.rec)
    IN  IF r.type # kPath
        THEN [sh EXCEPT !.fType = r.type, !.fRRect = r.rrect, !.fPath = NoPath,
                        !.fInheritedKey = <<>>]
        ELSE [sh EXCEPT !.fType = r.type, !.fRRect = r.rrect]

AttemptToReduceFromRRect(sh) ==
    IF RRectIsEmpty(sh.fRRect)
    THEN [sh EXCEPT !.fType = kEmpty, !.fRRect = DefaultRRect]
    ELSE sh

\* GrShape(const SkPath&, const GrStyle&)
GrShapeFromPath(path, style) ==
    AttemptToReduceFromPath(MkShape(kPath, DefaultRRect, path, style, <<>>))

\* GrShape(const SkRRect&, const GrStyle&)
GrShapeFromRRect(rrect, style) ==
    AttemptToReduceFromRRect(MkShape(kRRect, rrect, NoPath, style, <<>>))

\* GrShape(const SkRect&, const GrStyle&)
GrShapeFromRect(side, style) == GrShapeFromRRect(SetRect(side), style)

\* asPath that resets the output and never adds the rounded rect
AsPathResetOnly(sh) ==
    CASE sh.fType = kEmpty -> EmptyPath
      [] sh.fType = kRRect -> EmptyPath
      [] sh.fType = kPath -> sh.fPath

AsPath(sh) ==
    CASE sh.fType = kEmpty -> EmptyPath
      [] sh.fType = kRRect -> AddRRect(sh.fRRect, 0)
      [] sh.fType = kPath -> sh.fPath

\* bool asRRect(SkRRect* rrect)
AsRRect(sh) ==
    IF sh.fType # kRRect THEN [ok |-> FALSE, rrect |-> DefaultRRect]
    ELSE [ok |-> TRUE, rrect |-> sh.fRRect]

\* bool isEmpty()
IsEmpty(sh) == sh.fType = kEmpty

\* knownToBeClosed that looks at the contours of a path
KnownToBeClosedLooksAtPath(sh) ==
    CASE sh.fType = kEmpty -> TRUE
      [] sh.fType = kRRect -> TRUE
      [] sh.fType = kPath -> sh.fPath.closed

KnownToBeClosed(sh) ==
    CASE sh.fType = kEmpty -> TRUE
      [] sh.fType = kRRect -> TRUE
      [] sh.fType = kPath -> FALSE

\* unstyledKeySize that answers 0 for a volatile path
UnstyledKeySizeZeroIfVolatile(sh) ==
    IF Len(sh.fInheritedKey) # 0 THEN Len(sh.fInheritedKey)
    ELSE CASE sh.fType = kEmpty -> 1
           [] sh.fType = kRRect -> RRectKeyWords
           [] sh.fType = kPath -> IF sh.fPath.vol THEN 0 ELSE 1

\* unstyledKeySize that switches on the type without looking at the inherited key
UnstyledKeySizeTypeOnly(sh) ==
    CASE sh.fType = kEmpty -> 1
      [] sh.fType = kRRect -> RRectKeyWords
      [] sh.fType = kPath -> IF sh.fPath.vol THEN -1 ELSE 1

UnstyledKeySize(sh) ==
    IF Len(sh.fInheritedKey) # 0 THEN Len(sh.fInheritedKey)
    ELSE CASE sh.fType = kEmpty -> 1
           [] sh.fType = kRRect -> RRectKeyWords
           [] sh.fType = kPath -> IF sh.fPath.vol THEN -1 ELSE 1

\* writeUnstyledKey that writes the geometry key even when a key was inherited
WriteUnstyledKeyGeoOnly(sh) ==
    CASE sh.fType = kEmpty -> <<1>>
      [] sh.fType = kRRect -> WriteToMemory(sh.fRRect)
      [] sh.fType = kPath -> <<sh.fPath.gen>>

\* writeUnstyledKey that writes the same word for every path
WriteUnstyledKeyNoGen(sh) ==
    IF Len(sh.fInheritedKey) # 0 THEN sh.fInheritedKey
    ELSE CASE sh.fType = kEmpty -> <<1>>
           [] sh.fType = kRRect -> WriteToMemory(sh.fRRect)
           [] sh.fType = kPath -> <<1>>

\* the words writeUnstyledKey stores at key[0], key[1], ...
WriteUnstyledKey(sh) ==
    IF Len(sh.fInheritedKey) # 0 THEN sh.fInheritedKey
    ELSE CASE sh.fType = kEmpty -> <<1>>
           [] sh.fType = kRRect -> WriteToMemory(sh.fRRect)
           [] sh.fType = kPath -> <<sh.fPath.gen>>

\* the three SkASSERTs of writeUnstyledKey
WriteUnstyledKeyAsserts(sh) ==
    /\ UnstyledKeySize(sh) # 0
    /\ (Len(sh.fInheritedKey) = 0 /\ sh.fType = kPath) => ~sh.fPath.vol
    /\ Len(WriteUnstyledKey(sh)) = UnstyledKeySize(sh)

\* operator= that copies the inherited key only when that has one
OperatorAssignKeepsKey(this, that) ==
    [fType |-> that.fType,
     fStyle |-> that.fStyle,
     fRRect |-> IF that.fType = kRRect THEN that.fRRect ELSE DefaultRRect,
     fPath |-> IF that.fType = kPath THEN that.fPath ELSE NoPath,
     fInheritedKey |-> IF Len(that.fInheritedKey) = 0 THEN this.fInheritedKey
                       ELSE that.fInheritedKey]

\* GrShape& operator=(const GrShape& that), applied to the object this
OperatorAssign(this, that) ==
    LET wasPath == this.fType = kPath
    IN  [fType |-> that.fType,
         fStyle |-> that.fStyle,
         fRRect |-> IF that.fType = kRRect THEN that.fRRect ELSE DefaultRRect,
         fPath |-> CASE that.fType = kPath -> that.fPath
                     [] that.fType # kPath /\ wasPath -> NoPath
                     [] OTHER -> this.fPath,
         fInheritedKey |-> that.fInheritedKey]

\* GrShape(const GrShape& that): every case of the switch returns, so the
\* two statements that copy fInheritedKey are never reached
CopyConstruct(that) ==
    [fType |-> that.fType,
     fStyle |-> that.fStyle,
     fRRect |-> IF that.fType = kRRect THEN that.fRRect ELSE DefaultRRect,
     fPath |-> IF that.fType = kPath THEN that.fPath ELSE NoPath,
     fInheritedKey |-> <<>>]

\* fInheritedKey.reset(n): n words not yet written
kUnwritten == -1
ResetKey(n) == [i \in 1..n |-> kUnwritten]
\* store words at key + off; a store past the end of the array is lost
WriteAt(key, off, words) ==
    [i \in 1..Len(key) |->
        IF off < i /\ i <= off + Len(words) THEN words[i - off] ELSE key[i]]

\* setInheritedKey that returns without marking the path volatile when the
\* style has no key
SetInheritedKeyQuietFail(this, parent, apply, scale) ==
    IF this.fType # kPath THEN this
    ELSE
    LET useParentGeoKey == Len(parent.fInheritedKey) = 0
        parentCnt == IF useParentGeoKey THEN UnstyledKeySize(parent)
                     ELSE Len(parent.fInheritedKey)
        styleKeyFlags == KnownToBeClosed(parent)
        styleCnt == KeySize(parent.fStyle, apply, styleKeyFlags)
        geo == IF useParentGeoKey THEN WriteUnstyledKey(parent)
               ELSE SubSeq(parent.fInheritedKey, 1, parentCnt)
    IN  IF useParentGeoKey /\ parentCnt < 0
        THEN [this EXCEPT !.fPath = SetIsVolatile(this.fPath, TRUE)]
        ELSE IF styleCnt < 0
        THEN this
        ELSE [this EXCEPT !.fInheritedKey =
                 WriteAt(WriteAt(ResetKey(parentCnt + styleCnt), 0, geo), parentCnt,
                         WriteKey(parent.fStyle, apply, scale, styleKeyFlags))]

\* setInheritedKey that writes the style's key first and the parent's key
\* after it
SetInheritedKeyStyleFirst(this, parent, apply, scale) ==
    IF this.fType # kPath THEN this
    ELSE
    LET useParentGeoKey == Len(parent.fInheritedKey) = 0
        parentCnt == IF useParentGeoKey THEN UnstyledKeySize(parent)
                     ELSE Len(parent.fInheritedKey)
        styleKeyFlags == KnownToBeClosed(parent)
        styleCnt == KeySize(parent.fStyle, apply, styleKeyFlags)
        geo == IF useParentGeoKey THEN WriteUnstyledKey(parent)
               ELSE SubSeq(parent.fInheritedKey, 1, parentCnt)
    IN  IF useParentGeoKey /\ parentCnt < 0
        THEN [this EXCEPT !.fPath = SetIsVolatile(this.fPath, TRUE)]
        ELSE IF styleCnt < 0
        THEN [this EXCEPT !.fPath = SetIsVolatile(this.fPath, TRUE)]
        ELSE [this EXCEPT !.fInheritedKey =
                 WriteAt(WriteAt(ResetKey(parentCnt + styleCnt), styleCnt, geo), 0,
                         WriteKey(parent.fStyle, apply, scale, styleKeyFlags))]

\* setInheritedKey without the test of the type
SetInheritedKeyAnyType(this, parent, apply, scale) ==
    LET useParentGeoKey == Len(parent.fInheritedKey) = 0
        parentCnt == IF useParentGeoKey THEN UnstyledKeySize(parent)
                     ELSE Len(parent.fInheritedKey)
        styleKeyFlags == KnownToBeClosed(parent)
        styleCnt == KeySize(parent.fStyle, apply, styleKeyFlags)
        geo == IF useParentGeoKey THEN WriteUnstyledKey(parent)
               ELSE SubSeq(parent.fInheritedKey, 1, parentCnt)
    IN  IF (useParentGeoKey /\ parentCnt < 0) \/ styleCnt < 0
        THEN [this EXCEPT !.fPath = SetIsVolatile(this.fPath, TRUE)]
        ELSE [this EXCEPT !.fInheritedKey =
                 WriteAt(WriteAt(ResetKey(parentCnt + styleCnt), 0, geo), parentCnt,
                         WriteKey(parent.fStyle, apply, scale, styleKeyFlags))]

\* setInheritedKey that marks the path volatile when the style has no key
\* and, the return being missing, goes on to inherit the parent's key
SetInheritedKeyNoReturn(this, parent, apply, scale) ==
    IF this.fType # kPath THEN this
    ELSE
    LET useParentGeoKey == Len(parent.fInheritedKey) = 0
        parentCnt == IF useParentGeoKey THEN UnstyledKeySize(parent)
                     ELSE Len(parent.fInheritedKey)
        styleKeyFlags == KnownToBeClosed(parent)
        styleCnt == KeySize(parent.fStyle, apply, styleKeyFlags)
        geo == IF useParentGeoKey THEN WriteUnstyledKey(parent)
               ELSE SubSeq(parent.fInheritedKey, 1, parentCnt)
        keyed == [this EXCEPT !.fInheritedKey =
                     WriteAt(WriteAt(ResetKey(parentCnt + styleCnt), 0, geo), parentCnt,
                             WriteKey(parent.fStyle, apply, scale, styleKeyFlags))]
    IN  IF useParentGeoKey /\ parentCnt < 0
        THEN [this EXCEPT !.fPath = SetIsVolatile(this.fPath, TRUE)]
        ELSE IF styleCnt < 0
        THEN [keyed EXCEPT !.fPath = SetIsVolatile(this.fPath, TRUE)]
        ELSE keyed

SetInheritedKey(this, parent, apply, scale) ==
    IF this.fType # kPath THEN this
    ELSE
    LET useParentGeoKey == Len(parent.fInheritedKey) = 0
        parentCnt == IF useParentGeoKey THEN UnstyledKeySize(parent)
                     ELSE Len(parent.fInheritedKey)
        styleKeyFlags == KnownToBeClosed(parent)
        styleCnt == KeySize(parent.fStyle, apply, styleKeyFlags)
        geo == IF useParentGeoKey THEN WriteUnstyledKey(parent)
               ELSE SubSeq(parent.fInheritedKey, 1, parentCnt)
    IN  IF useParentGeoKey /\ parentCnt < 0
        THEN [this EXCEPT !.fPath = SetIsVolatile(this.fPath, TRUE)]
        ELSE IF styleCnt < 0
        THEN [this EXCEPT !.fPath = SetIsVolatile(this.fPath, TRUE)]
        ELSE [this EXCEPT !.fInheritedKey =
                 WriteAt(WriteAt(ResetKey(parentCnt + styleCnt), 0, geo), parentCnt,
                         WriteKey(parent.fStyle, apply, scale, styleKeyFlags))]

\* setInheritedKey reaches parent.writeUnstyledKey(fInheritedKey.get())
CallsWriteUnstyledKey(this, parent, apply) ==
    /\ this.fType = kPath
    /\ Len(parent.fInheritedKey) = 0
    /\ ~(UnstyledKeySize(parent) < 0)
    /\ ~(KeySize(parent.fStyle, apply, KnownToBeClosed(parent)) < 0)

(***************************************************************************)
(* GrShape(const GrShape& parent, GrStyle::Apply apply, SkScalar scale),   *)
(* the constructor behind applyStyle.  gen is the generation id of the     *)
(* path the constructor builds.                                            *)
(***************************************************************************)
\* the source path of the path effect or of the stroke
SrcPath(parent) == IF parent.fType = kPath THEN parent.fPath ELSE AsPath(parent)

\* the key-reference shape is always the parent
ParentForKeyLiteral(parent, path, strokeRec) == parent

\* parentForKey whose temporary rounded rect has the default style
ParentForKeyUnstyled(parent, path, strokeRec) ==
    LET r == AttemptToReduceFromPathImpl(path, NoPE, strokeRec)
    IN  CASE r.type = kEmpty -> DefaultShape
          [] r.type = kRRect -> GrShapeFromRRect(r.rrect, DefaultStyle)
          [] r.type = kPath -> parent

\* the shape whose key the stroked output of a path effect inherits
ParentForKey(parent, path, strokeRec) ==
    LET r == AttemptToReduceFromPathImpl(path, NoPE, strokeRec)
    IN  CASE r.type = kEmpty -> DefaultShape
          [] r.type = kRRect -> GrShapeFromRRect(r.rrect, MkStyle(NoPE, strokeRec))
          [] r.type = kPath -> parent

\* this->attemptToReduceFromPath(); this->setInheritedKey(*parentForKey, apply, scale);
ReduceAndKey(this, parentForKey, apply, scale) ==
    SetInheritedKey(AttemptToReduceFromPath(this), parentForKey, apply, scale)

\* the branch "if (pe)" that returns on a failed filter without resetting
\* the type and the path
ApplyPathEffectNoReset(parent, apply, scale, gen) ==
    LET f == FilterPath(parent.fStyle.pe, SrcPath(parent),
                        SetResScale(parent.fStyle.rec, scale), gen)
        this == MkShape(kPath, DefaultRRect, f.path, DefaultStyle, <<>>)
    IN  IF ~f.ok
        THEN MkShape(kPath, DefaultRRect, EmptyPath, DefaultStyle, <<>>)
        ELSE IF apply = kPathEffectAndStrokeRec /\ NeedToApply(f.rec)
        THEN ReduceAndKey(
                 [this EXCEPT !.fPath = StrokeRecApplyToPath(f.rec, f.path, gen).path],
                 ParentForKey(parent, f.path, f.rec), apply, scale)
        ELSE ReduceAndKey([this EXCEPT !.fStyle = MkStyle(NoPE, f.rec)],
                          parent, apply, scale)

\* the branch "if (pe)" that sets the stroke-only style also after it has
\* applied the stroke
ApplyPathEffectKeepsStroke(parent, apply, scale, gen) ==
    LET f == FilterPath(parent.fStyle.pe, SrcPath(parent),
                        SetResScale(parent.fStyle.rec, scale), gen)
        this == MkShape(kPath, DefaultRRect, f.path, MkStyle(NoPE, f.rec), <<>>)
    IN  IF ~f.ok
        THEN MkShape(kEmpty, DefaultRRect, NoPath, DefaultStyle, <<>>)
        ELSE IF apply = kPathEffectAndStrokeRec /\ NeedToApply(f.rec)
        THEN ReduceAndKey(
                 [this EXCEPT !.fPath = StrokeRecApplyToPath(f.rec, f.path, gen).path],
                 ParentForKey(parent, f.path, f.rec), apply, scale)
        ELSE ReduceAndKey(this, parent, apply, scale)

\* the branch "if (pe)"
ApplyPathEffect(parent, apply, scale, gen) ==
    LET f == FilterPath(parent.fStyle.pe, SrcPath(parent),
                        SetResScale(parent.fStyle.rec, scale), gen)
        this == MkShape(kPath, DefaultRRect, f.path, DefaultStyle, <<>>)
    IN  IF ~f.ok
        THEN MkShape(kEmpty, DefaultRRect, NoPath, DefaultStyle, <<>>)
        ELSE IF apply = kPathEffectAndStrokeRec /\ NeedToApply(f.rec)
        THEN ReduceAndKey(
                 [this EXCEPT !.fPath = StrokeRecApplyToPath(f.rec, f.path, gen).path],
                 ParentForKey(parent, f.path, f.rec), apply, scale)
        ELSE ReduceAndKey([this EXCEPT !.fStyle = MkStyle(NoPE, f.rec)],
                          parent, apply, scale)

\* the branch "else": no path effect, the style is a stroke
ApplyParentStyle(parent, apply, scale, gen) ==
    LET r == GrStyleApplyToPath(parent.fStyle, SrcPath(parent), scale, gen)
        this == MkShape(kPath, DefaultRRect, r.path,
                        ResetToInitStyle(DefaultStyle, r.init), <<>>)
    IN  ReduceAndKey(this, parent, apply, scale)

\* the short-circuit returns a copy-constructed parent
ApplyStyleCopies(parent, apply, scale, gen) ==
    IF ~Applies(parent.fStyle)
       \/ (apply = kPathEffectOnly /\ parent.fStyle.pe = NoPE)
    THEN CopyConstruct(parent)
    ELSE IF parent.fStyle.pe # NoPE
    THEN ApplyPathEffect(parent, apply, scale, gen)
    ELSE ApplyParentStyle(parent, apply, scale, gen)

ApplyStyle(parent, apply, scale, gen) ==
    IF ~Applies(parent.fStyle)
       \/ (apply = kPathEffectOnly /\ parent.fStyle.pe = NoPE)
    THEN OperatorAssign(DefaultShape, parent)
    ELSE IF parent.fStyle.pe # NoPE
    THEN ApplyPathEffect(parent, apply, scale, gen)
    ELSE ApplyParentStyle(parent, apply, scale, gen)

\* what pe->filterPath returns in the constructor for this parent and scale
FilterOf(parent, scale, gen) ==
    FilterPath(parent.fStyle.pe, SrcPath(parent),
               SetResScale(parent.fStyle.rec, scale), gen)

\* the constructor gets past the short-circuit and the path effect, if any,
\* succeeds: attemptToReduceFromPath and setInheritedKey run
ReachesKeying(parent, apply, scale, gen) ==
    /\ ~(~Applies(parent.fStyle)
          \/ (apply = kPathEffectOnly /\ parent.fStyle.pe = NoPE))
    /\ parent.fStyle.pe # NoPE => FilterOf(parent, scale, gen).ok

\* *parentForKey when setInheritedKey is called
KeyReference(parent, apply, scale, gen) ==
    LET f == FilterOf(parent, scale, gen)
    IN  IF parent.fStyle.pe # NoPE /\ f.ok
           /\ apply = kPathEffectAndStrokeRec /\ NeedToApply(f.rec)
        THEN ParentForKey(parent, f.path, f.rec)
        ELSE parent

(***************************************************************************)
(* The caller's inputs.                                                    *)
(***************************************************************************)
kSide == 4
kWidth == 2
\* the caller's paths other than the empty one (the last one is a general
\* path whose contours are all closed); path i has generation id
\* kEmptyGenID + i
UserContents ==
    << <<"rrect", kSide, 1, TRUE>>, <<"oval", kSide, kSide \div 2, TRUE>>,
       <<"rect", kSide, 0, TRUE>>, <<"rect", kSide, 0, FALSE>>,
       <<"general", 0, 0, FALSE>>, <<"general", 0, 0, TRUE>> >>
UserPath(i, vol) ==
    MkPath(UserContents[i][1], UserContents[i][2], UserContents[i][3],
           UserContents[i][4], kEmptyGenID + i, vol)
\* a volatile copy of a path has the path's generation id; volatility is
\* only read of a path that stays a path
InputPaths ==
    {EmptyPath} \cup {UserPath(i, FALSE) : i \in 1..Len(UserContents)}
    \cup {UserPath(i, TRUE) : i \in {j \in 1..Len(UserContents) :
                                       UserContents[j][1] \in {"rect", "general"}
                                       /\ ~UserContents[j][4]}}
InputRRects == {MkRRect(0, 0), MkRRect(kSide, 1), SetOval(kSide)}
InputSides == {0, kSide}
StrokeButt == MkRec("stroke", "butt", kWidth, 1)
StrokeRound == MkRec("stroke", "round", kWidth, 1)
InputStyles ==
    { DefaultStyle,
      MkStyle(NoPE, StrokeRound),
      MkStyle(NoPE, MkRec("strokeAndFill", "butt", kWidth, 1)),
      MkStyle(Dash(0), StrokeRound),
      MkStyle(Dash(1), StrokeRound),
      MkStyle(Dash(2), StrokeButt),
      MkStyle(Dash(0), MkRec("hairline", "butt", 0, 1)),
      MkStyle(Dash(0), FillRec),
      MkStyle(Generic(1), StrokeButt),
      MkStyle(Generic(2), StrokeButt) }

FirstDerivedGen == kEmptyGenID + Len(UserContents) + 1

(***************************************************************************)
(* State: the caller's GrShape objects and the next unused generation id.  *)
(* Writing shapes[d] stands for declaring the object anew.                 *)
(***************************************************************************)
VARIABLES shapes, nextGen

vars == <<shapes, nextGen>>

DerivedGens == FirstDerivedGen..(FirstDerivedGen + MaxDerived - 1)

Init ==
    /\ shapes = [i \in Slots |-> DefaultShape]
    /\ nextGen = FirstDerivedGen

Construct(d, sh) ==
    /\ shapes' = [shapes EXCEPT ![d] = sh]
    /\ UNCHANGED nextGen

\* GrShape shapes[d];
ConstructDefault(d) == Construct(d, DefaultShape)

\* GrShape shapes[d](path, style);
ConstructFromPath(d, path, style) == Construct(d, GrShapeFromPath(path, style))

\* GrShape shapes[d](rrect, style);
ConstructFromRRect(d, rrect, style) == Construct(d, GrShapeFromRRect(rrect, style))

\* GrShape shapes[d](rect, style);
ConstructFromRect(d, side, style) == Construct(d, GrShapeFromRect(side, style))

\* GrShape shapes[d](shapes[s]);
Copy(s, d) ==
    /\ s # d
    /\ shapes' = [shapes EXCEPT ![d] = CopyConstruct(shapes[s])]
    /\ UNCHANGED nextGen

\* shapes[d] = shapes[s];
Assign(s, d) ==
    /\ shapes' = [shapes EXCEPT ![d] = OperatorAssign(shapes[d], shapes[s])]
    /\ UNCHANGED nextGen

\* GrShape shapes[d] = shapes[s].applyStyle(apply, scale);
DoApplyStyle(s, d, apply, scale) ==
    LET res == ApplyStyle(shapes[s], apply, scale, nextGen)
        built == res.fType = kPath /\ res.fPath.gen = nextGen
    IN  /\ built => nextGen \in DerivedGens
        /\ shapes' = [shapes EXCEPT ![d] = res]
        /\ nextGen' = IF built THEN nextGen + 1 ELSE nextGen

Next ==
    \/ \E d \in Slots : ConstructDefault(d)
    \/ \E d \in Slots, p \in InputPaths, st \in InputStyles : ConstructFromPath(d, p, st)
    \/ \E d \in Slots, rr \in InputRRects, st \in InputStyles : ConstructFromRRect(d, rr, st)
    \/ \E d \in Slots, side \in InputSides, st \in InputStyles : ConstructFromRect(d, side, st)
    \/ \E s \in Slots, d \in Slots : Copy(s, d)
    \/ \E s \in Slots, d \in Slots : Assign(s, d)
    \/ \E s \in Slots, d \in Slots, a \in Applys, sc \in Scales : DoApplyStyle(s, d, a, sc)

Spec == Init /\ [][Next]_vars

(***************************************************************************)
(* What a caller observes of a shape.                                      *)
(***************************************************************************)
\* the unstyled key: its size and, when there is one, its words
KeyOf(sh) ==
    [size |-> UnstyledKeySize(sh),
     words |-> IF UnstyledKeySize(sh) > 0 THEN WriteUnstyledKey(sh) ELSE <<>>]

HasInheritedKey(sh) == Len(sh.fInheritedKey) # 0

\* the outline of a path, without its generation id and volatility
Outline(path) == [path EXCEPT !.gen = 0, !.vol = FALSE]

\* same variant and same geometry (the paths may be different objects)
SameGeometry(a, b) ==
    /\ a.fType = b.fType
    /\ a.fType = kRRect => a.fRRect = b.fRRect
    /\ a.fType = kPath => Outline(a.fPath) = Outline(b.fPath)

\* same variant, style, geometry (for a path: the same path, generation id
\* and volatility included) and inherited key
SameValue(a, b) ==
    /\ a.fType = b.fType
    /\ a.fStyle = b.fStyle
    /\ a.fType = kRRect => a.fRRect = b.fRRect
    /\ a.fPath = b.fPath
    /\ a.fInheritedKey = b.fInheritedKey

(***************************************************************************)
(* Properties.                                                             *)
(***************************************************************************)
DashPlusStroke(sh) ==
    sh.fType = kRRect /\ IsDashed(sh.fStyle) /\ NeedToApply(sh.fStyle.rec)

\* applyStyle(applyStyle(R, kPathEffectOnly, sc), kPathEffectAndStrokeRec, sc)
Staged(R, sc, g1, g2) ==
    ApplyStyle(ApplyStyle(R, kPathEffectOnly, sc, g1), kPathEffectAndStrokeRec, sc, g2)

\* C1: for every rounded-rect shape R whose style is a dash plus a stroke and
\* every scale, applying the path effect and then the rest of the style gives
\* the same unstyled key (size and words) as applying the whole style at
\* once, whenever the two results have the same final geometry.
StagedKeyEqualsOneShotKey ==
    \A i \in Slots, sc \in Scales :
        LET R == shapes[i]
            Q == Staged(R, sc, nextGen, nextGen + 1)
            O == ApplyStyle(R, kPathEffectAndStrokeRec, sc, nextGen)
        IN  (DashPlusStroke(R) /\ SameGeometry(Q, O)) => KeyOf(Q) = KeyOf(O)

\* a slot holds the path that the staged application of another slot's
\* dashed, stroked rounded rect produced, with its inherited key
StagedKeyWitness ==
    \E i, j \in Slots, sc \in Scales, g1, g2 \in DerivedGens :
        LET R == shapes[i]
            O == ApplyStyle(R, kPathEffectAndStrokeRec, sc, nextGen)
        IN  /\ i # j
            /\ DashPlusStroke(R)
            /\ shapes[j] = Staged(R, sc, g1, g2)
            /\ shapes[j].fType = kPath
            /\ HasInheritedKey(shapes[j])
            /\ SameGeometry(shapes[j], O)
            /\ KeyOf(shapes[j]) = KeyOf(O)

\* C2: the copy GrShape(S) of every reachable shape S has the variant, the
\* style, the geometry and the inherited key of S, hence the same unstyled
\* key size and words.
CopyPreservesValue ==
    \A i \in Slots :
        /\ SameValue(CopyConstruct(shapes[i]), shapes[i])
        /\ KeyOf(CopyConstruct(shapes[i])) = KeyOf(shapes[i])

\* C3: after A = B, A has B's variant, style, geometry and inherited key,
\* whatever A held before; no path and no inherited key of A's remains.
AssignPreservesValue ==
    \A a, b \in Slots :
        LET r == OperatorAssign(shapes[a], shapes[b])
        IN  /\ SameValue(r, shapes[b])
            /\ r.fType # kPath => r.fPath = NoPath
            /\ KeyOf(r) = KeyOf(shapes[b])

\* two objects hold the same path with the same inherited key, as an
\* assignment leaves them
AssignWitness ==
    \E a, b \in Slots :
        /\ a # b
        /\ shapes[a].fType = kPath
        /\ HasInheritedKey(shapes[a])
        /\ SameValue(shapes[a], shapes[b])

\* C4: when the same style is applied with the same mode and scale to two
\* shapes of the same underlying geometry, the results have equal unstyled
\* keys.  Two shapes have the same underlying geometry when they have the
\* same variant and the same unstyled key, and also when one is the copy of
\* the other.
SameGeometrySameStyledKey ==
    \A i, j \in Slots, a \in Applys, sc \in Scales :
        LET A == shapes[i]
            B == shapes[j]
            C == CopyConstruct(A)
        IN  /\ ( /\ A.fType = B.fType
                 /\ A.fStyle = B.fStyle
                 /\ UnstyledKeySize(A) > 0
                 /\ KeyOf(A) = KeyOf(B) )
               => KeyOf(ApplyStyle(A, a, sc, nextGen)) = KeyOf(ApplyStyle(B, a, sc, nextGen))
            /\ KeyOf(ApplyStyle(A, a, sc, nextGen)) = KeyOf(ApplyStyle(C, a, sc, nextGen))

\* the part of C4 about two shapes with the same variant, style and key
EqualKeysSameStyledKey ==
    \A i, j \in Slots, a \in Applys, sc \in Scales :
        LET A == shapes[i]
            B == shapes[j]
        IN  ( /\ A.fType = B.fType
              /\ A.fStyle = B.fStyle
              /\ UnstyledKeySize(A) > 0
              /\ KeyOf(A) = KeyOf(B) )
            => KeyOf(ApplyStyle(A, a, sc, nextGen)) = KeyOf(ApplyStyle(B, a, sc, nextGen))

NoOp(sh, apply) ==
    ~Applies(sh.fStyle) \/ (apply = kPathEffectOnly /\ sh.fStyle.pe = NoPE)

\* C5: if the parent's style does not apply, or the mode is kPathEffectOnly
\* and the style has no path effect, applyStyle returns an exact copy of the
\* parent: same variant, geometry, style and inherited key, for every parent
\* and every scale.
NoOpReturnsExactCopy ==
    \A i \in Slots, a \in Applys, sc \in Scales :
        LET r == ApplyStyle(shapes[i], a, sc, nextGen)
        IN  NoOp(shapes[i], a) =>
                /\ SameValue(r, shapes[i])
                /\ KeyOf(r) = KeyOf(shapes[i])

\* a slot holds what applyStyle returns for another slot's path, which
\* carries an inherited key and a style that leaves nothing to apply
NoOpWitness ==
    \E i, j \in Slots, a \in Applys, sc \in Scales :
        /\ i # j
        /\ shapes[i].fType = kPath
        /\ HasInheritedKey(shapes[i])
        /\ NoOp(shapes[i], a)
        /\ shapes[j] = ApplyStyle(shapes[i], a, sc, nextGen)

\* C6: a shape whose variant is Empty or RoundedRect has an empty inherited
\* key, in every reachable state.
OnlyPathsInheritKeys ==
    \A i \in Slots :
        shapes[i].fType \in {kEmpty, kRRect} => Len(shapes[i].fInheritedKey) = 0

\* a rounded rect that applyStyle produced (its stroke rec has the scale of
\* the call) from the output of a path effect
ReducedResultWitness ==
    \E i \in Slots :
        /\ shapes[i].fType = kRRect
        /\ shapes[i].fStyle.rec.resScale = MaxScale
        /\ NeedToApply(shapes[i].fStyle.rec)
        /\ Len(shapes[i].fInheritedKey) = 0

\* C7: a shape of the Path variant has a volatile path exactly when its
\* unstyledKeySize() is negative, and then it is -1, with or without an
\* inherited key.
VolatileIffNoKey ==
    \A i \in Slots :
        shapes[i].fType = kPath =>
            /\ shapes[i].fPath.vol <=> UnstyledKeySize(shapes[i]) < 0
            /\ UnstyledKeySize(shapes[i]) < 0 => UnstyledKeySize(shapes[i]) = -1

\* one path applyStyle built and marked volatile, another with an inherited
\* key and a positive key size
VolatileWitness ==
    \E i, j \in Slots :
        /\ shapes[i].fType = kPath
        /\ shapes[i].fPath.gen \in DerivedGens
        /\ shapes[i].fPath.vol
        /\ UnstyledKeySize(shapes[i]) = -1
        /\ shapes[j].fType = kPath
        /\ HasInheritedKey(shapes[j])
        /\ ~shapes[j].fPath.vol

\* C8: unstyledKeySize() is the length of the inherited key when there is
\* one; otherwise 1 for Empty, the number of 32-bit words of the rounded
\* rect's memory layout for RoundedRect, 1 for a non-volatile path and a
\* negative value for a volatile path.  It is never 0.
KeySizeByCase ==
    \A i \in Slots :
        LET sh == shapes[i]
            n == UnstyledKeySize(sh)
        IN  /\ n # 0
            /\ HasInheritedKey(sh) => n = Len(sh.fInheritedKey)
            /\ (~HasInheritedKey(sh) /\ sh.fType = kEmpty) => n = 1
            /\ (~HasInheritedKey(sh) /\ sh.fType = kRRect)
                  => n = Len(WriteToMemory(sh.fRRect))
            /\ (~HasInheritedKey(sh) /\ sh.fType = kPath /\ ~sh.fPath.vol) => n = 1
            /\ (~HasInheritedKey(sh) /\ sh.fType = kPath /\ sh.fPath.vol) => n < 0

\* a path with an inherited key next to a rounded rect
KeySizeWitness ==
    \E i, j \in Slots :
        /\ shapes[i].fType = kPath
        /\ HasInheritedKey(shapes[i])
        /\ UnstyledKeySize(shapes[i]) > RRectKeyWords
        /\ shapes[j].fType = kRRect
        /\ UnstyledKeySize(shapes[j]) = RRectKeyWords

BuiltFromPath(sh) ==
    /\ sh.fType = kPath
    /\ ~HasInheritedKey(sh)
    /\ ~sh.fPath.vol

\* C10: two shapes built from non-volatile general paths have identical
\* unstyled keys if the paths have the same generation id and different
\* unstyled keys if they have different generation ids.
KeyStability ==
    \A i, j \in Slots :
        (BuiltFromPath(shapes[i]) /\ BuiltFromPath(shapes[j])) =>
            /\ shapes[i].fPath.gen = shapes[j].fPath.gen
                  => KeyOf(shapes[i]) = KeyOf(shapes[j])
            /\ shapes[i].fPath.gen # shapes[j].fPath.gen
                  => KeyOf(shapes[i]) # KeyOf(shapes[j])

\* two shapes built from two of the caller's paths, under the same style
KeyStabilityWitness ==
    \E i, j \in Slots :
        /\ BuiltFromPath(shapes[i])
        /\ BuiltFromPath(shapes[j])
        /\ shapes[i].fStyle = shapes[j].fStyle
        /\ shapes[i].fPath.gen # shapes[j].fPath.gen
        /\ shapes[i].fPath.gen < FirstDerivedGen
        /\ shapes[j].fPath.gen < FirstDerivedGen
        /\ KeyOf(shapes[i]) # KeyOf(shapes[j])

(***************************************************************************)
(* Canonicalization.                                                       *)
(***************************************************************************)
\* the paths a caller can hand to a constructor: its own and those that
\* asPath() gives for the shapes it holds
CallerPaths == InputPaths \cup {AsPath(shapes[i]) : i \in Slots}
\* the styles a caller can hand to a constructor
CallerStyles == InputStyles \cup {shapes[i].fStyle : i \in Slots}

PlainFill(style) == style.pe = NoPE /\ style.rec.style = "fill"

\* C11: GrShape(path, style) is Empty with key size 1 for an empty path; a
\* RoundedRect with the path's rounded rect for a path that is exactly a
\* rounded rect; a RoundedRect that is the oval for an oval; a RoundedRect
\* with zero radii for a rectangle that is closed or whose style has no path
\* effect and is a plain fill; and a Path holding the given path otherwise.
\* So an open rectangle under a stroke or under a path effect stays a Path
\* and a closed rectangle is a RoundedRect under every style.
ReductionByFirstMatch ==
    \A p \in CallerPaths, st \in CallerStyles :
        LET sh == GrShapeFromPath(p, st)
        IN  /\ sh.fStyle = st
            /\ p.kind = "empty" =>
                   IsEmpty(sh) /\ UnstyledKeySize(sh) = 1
            /\ p.kind = "rrect" =>
                   AsRRect(sh) = [ok |-> TRUE, rrect |-> MkRRect(p.side, p.rad)]
            /\ p.kind = "oval" =>
                   AsRRect(sh) = [ok |-> TRUE, rrect |-> MkRRect(p.side, p.side \div 2)]
            /\ (p.kind = "rect" /\ (p.closed \/ PlainFill(st))) =>
                   AsRRect(sh) = [ok |-> TRUE, rrect |-> MkRRect(p.side, 0)]
            /\ (p.kind = "rect" /\ ~p.closed /\ ~PlainFill(st)) =>
                   sh.fType = kPath /\ sh.fPath = p
            /\ p.kind = "general" => sh.fType = kPath /\ sh.fPath = p
            /\ sh.fType # kPath => sh.fPath = NoPath

\* one object built from the open rectangle under a stroke, which stays a
\* Path, next to one built from the closed rectangle under a dash, which is
\* a RoundedRect
ReductionWitness ==
    \E i, j \in Slots :
        /\ shapes[i] = GrShapeFromPath(UserPath(4, FALSE), MkStyle(NoPE, StrokeRound))
        /\ shapes[i].fType = kPath
        /\ shapes[j] = GrShapeFromPath(UserPath(3, FALSE), MkStyle(Dash(0), StrokeRound))
        /\ AsRRect(shapes[j]).ok

\* C12: for every reachable shape S, the shape built from the path that
\* S.asPath() gives and S's style has S's variant, S's rounded rect when S is
\* a RoundedRect and S's path when S is a Path; and reducing a Path shape
\* again leaves it as it is, inherited key included.
CanonicalizationIdempotent ==
    \A i \in Slots :
        LET S == shapes[i]
            T == GrShapeFromPath(AsPath(S), S.fStyle)
        IN  /\ T.fType = S.fType
            /\ T.fStyle = S.fStyle
            /\ S.fType = kRRect => AsRRect(T) = [ok |-> TRUE, rrect |-> S.fRRect]
            /\ S.fType = kPath => T.fPath = S.fPath /\ AttemptToReduceFromPath(S) = S

\* a rounded rect that applyStyle made of the outset of the caller's
\* rectangle, next to a Path that holds an open rectangle
IdempotentWitness ==
    \E i, j \in Slots :
        /\ shapes[i].fType = kRRect
        /\ shapes[i].fRRect = SetRect(kSide + kWidth)
        /\ GrShapeFromPath(AsPath(shapes[i]), shapes[i].fStyle).fRRect = shapes[i].fRRect
        /\ shapes[j].fType = kPath
        /\ shapes[j].fPath.kind = "rect"
        /\ GrShapeFromPath(AsPath(shapes[j]), shapes[j].fStyle).fType = kPath

(***************************************************************************)
(* Applying the style.                                                     *)
(***************************************************************************)
FilterFails(sh, sc) == sh.fStyle.pe # NoPE /\ ~FilterOf(sh, sc, nextGen).ok

\* C13: if the path effect's filterPath fails, applyStyle in either mode
\* returns the default shape: Empty, default style, no path, empty inherited
\* key, unstyledKeySize() 1.
FilterFailureGivesDefaultShape ==
    \A i \in Slots, a \in Applys, sc \in Scales :
        LET r == ApplyStyle(shapes[i], a, sc, nextGen)
        IN  FilterFails(shapes[i], sc) =>
                /\ r = DefaultShape
                /\ IsEmpty(r)
                /\ r.fStyle = DefaultStyle
                /\ r.fPath = NoPath
                /\ r.fInheritedKey = <<>>
                /\ UnstyledKeySize(r) = 1

\* a rounded rect whose dash fails on its fill style, and what applyStyle
\* returned for it
FilterFailureWitness ==
    \E i, j \in Slots, a \in Applys, sc \in Scales :
        /\ i # j
        /\ shapes[i].fType = kRRect
        /\ FilterFails(shapes[i], sc)
        /\ shapes[j] = ApplyStyle(shapes[i], a, sc, nextGen)
        /\ IsEmpty(shapes[j])

\* the shape applyStyle returns, with the shape its key was derived from
Keyed(sh, a, sc) ==
    [r |-> ApplyStyle(sh, a, sc, nextGen),
     K |-> KeyReference(sh, a, sc, nextGen),
     runs |-> ReachesKeying(sh, a, sc, nextGen)]

\* parentCnt and styleCnt of setInheritedKey for the key-reference shape K
ParentCnt(K) ==
    IF HasInheritedKey(K) THEN Len(K.fInheritedKey) ELSE UnstyledKeySize(K)
StyleCnt(K, a) == KeySize(K.fStyle, a, KnownToBeClosed(K))

\* C14: when applyStyle produces a Path and the key-reference shape has no
\* inherited key and a negative unstyledKeySize(), or the key size of the
\* key-reference shape's style for the mode and flags is negative, the
\* result's path is volatile, its inherited key is empty and its
\* unstyledKeySize() is -1.
KeyFailureGivesVolatile ==
    \A i \in Slots, a \in Applys, sc \in Scales :
        LET k == Keyed(shapes[i], a, sc)
        IN  ( /\ k.runs
              /\ k.r.fType = kPath
              /\ \/ (~HasInheritedKey(k.K) /\ UnstyledKeySize(k.K) < 0)
                 \/ StyleCnt(k.K, a) < 0 )
            => /\ k.r.fPath.vol
               /\ k.r.fInheritedKey = <<>>
               /\ UnstyledKeySize(k.r) = -1

\* a keyed, non-volatile Path whose style has a path effect without a key,
\* and the volatile Path that applyStyle made of it
KeyFailureWitness ==
    \E i, j \in Slots, a \in Applys, sc \in Scales, g \in DerivedGens :
        /\ i # j
        /\ shapes[i].fType = kPath
        /\ UnstyledKeySize(shapes[i]) > 0
        /\ KeySize(shapes[i].fStyle, a, FALSE) < 0
        /\ shapes[j] = ApplyStyle(shapes[i], a, sc, g)
        /\ shapes[j].fType = kPath
        /\ shapes[j].fPath.vol
        /\ UnstyledKeySize(shapes[j]) = -1

\* the words the key-reference shape K contributes to an inherited key
ParentWords(K) ==
    IF HasInheritedKey(K) THEN K.fInheritedKey ELSE WriteUnstyledKey(K)

IsPrefix(p, q) == Len(p) <= Len(q) /\ SubSeq(q, 1, Len(p)) = p

\* C15: when applyStyle yields a Path and parentCnt and styleCnt are not
\* negative, the result's inherited key has parentCnt + styleCnt words: first
\* the key-reference shape's inherited key if it has one and otherwise its
\* geometry key, then the key of the key-reference shape's style for the
\* mode, the scale and the flags.  So the key-reference shape's unstyled key
\* is a prefix of the result's.
InheritedKeyComposition ==
    \A i \in Slots, a \in Applys, sc \in Scales :
        LET k == Keyed(shapes[i], a, sc)
            pc == ParentCnt(k.K)
            stc == StyleCnt(k.K, a)
            key == k.r.fInheritedKey
        IN  (k.runs /\ k.r.fType = kPath /\ pc >= 0 /\ stc >= 0) =>
                /\ Len(key) = pc + stc
                /\ SubSeq(key, 1, pc) = ParentWords(k.K)
                /\ SubSeq(key, pc + 1, pc + stc)
                      = WriteKey(k.K.fStyle, a, sc, KnownToBeClosed(k.K))
                /\ IsPrefix(KeyOf(k.K).words, KeyOf(k.r).words)
                /\ UnstyledKeySize(k.r) = pc + stc

\* a chain of two applications: a Path that inherited (geometry, dash) from
\* a rounded rect, and the Path that applying the stroke made of it, whose
\* key is the first one's key followed by the stroke's
KeyChainWitness ==
    \E i, j \in Slots, sc \in Scales, g \in DerivedGens :
        /\ i # j
        /\ shapes[i].fType = kPath
        /\ Len(shapes[i].fInheritedKey) = RRectKeyWords + Len(DashKey(shapes[i].fStyle, sc))
        /\ NeedToApply(shapes[i].fStyle.rec)
        /\ shapes[j] = ApplyStyle(shapes[i], kPathEffectAndStrokeRec, sc, g)
        /\ shapes[j].fType = kPath
        /\ Len(shapes[j].fInheritedKey) > Len(shapes[i].fInheritedKey)
        /\ IsPrefix(shapes[i].fInheritedKey, shapes[j].fInheritedKey)

\* the path effect of sh succeeds at scale sc, leaves a stroke to apply, and
\* its output reduces to a rounded rect
EffectGivesRRect(sh, sc) ==
    LET f == FilterOf(sh, sc, nextGen)
    IN  /\ sh.fStyle.pe # NoPE
        /\ f.ok
        /\ NeedToApply(f.rec)
        /\ AttemptToReduceFromPathImpl(f.path, NoPE, f.rec).type = kRRect

\* C16: in mode kPathEffectAndStrokeRec, when the style has a path effect,
\* the stroke still needs applying and the path effect's output reduces to a
\* rounded rect RR, a Path result has the unstyled key of
\* applyStyle(GrShape(RR, stroke-only style), kPathEffectAndStrokeRec, sc):
\* RR's geometry key followed by the key of the stroke-only style with the
\* closed flag, whatever the parent's geometry and inherited key are.
KeyAnchoredOnEffectOutput ==
    \A i \in Slots, sc \in Scales :
        LET P == shapes[i]
            f == FilterOf(P, sc, nextGen)
            RR == AttemptToReduceFromPathImpl(f.path, NoPE, f.rec).rrect
            strokeOnly == MkStyle(NoPE, f.rec)
            r == ApplyStyle(P, kPathEffectAndStrokeRec, sc, nextGen)
            direct == ApplyStyle(GrShapeFromRRect(RR, strokeOnly),
                                 kPathEffectAndStrokeRec, sc, nextGen)
        IN  (EffectGivesRRect(P, sc) /\ r.fType = kPath) =>
                /\ KeyOf(r) = KeyOf(direct)
                /\ r.fInheritedKey
                     = WriteToMemory(RR)
                       \o WriteKey(strokeOnly, kPathEffectAndStrokeRec, sc, TRUE)

\* a Path whose path effect has no key and outputs a rounded rect, and the
\* Path that applying the whole style made of it, keyed on the rounded rect
AnchoredKeyWitness ==
    \E i, j \in Slots, sc \in Scales, g \in DerivedGens :
        /\ i # j
        /\ shapes[i].fType = kPath
        /\ EffectGivesRRect(shapes[i], sc)
        /\ KeySize(shapes[i].fStyle, kPathEffectAndStrokeRec, FALSE) < 0
        /\ shapes[j] = ApplyStyle(shapes[i], kPathEffectAndStrokeRec, sc, g)
        /\ shapes[j].fType = kPath
        /\ SubSeq(shapes[j].fInheritedKey, 1, RRectKeyWords)
             = WriteToMemory(MkRRect(kFilterSide, 1))
        /\ Len(shapes[j].fInheritedKey) > RRectKeyWords

\* the words of an inherited key after the first n
StylePart(key, n) == SubSeq(key, n + 1, Len(key))

\* C17: the style's part of an inherited key is the style's key computed
\* with the closed flag exactly when the key-reference shape is Empty or
\* RoundedRect; for a key-reference shape that is a Path the flag is not
\* set, even when every contour of its path is closed.  The size of the
\* style's part is the style's key size for the same flag.
ClosedFlagFromVariant ==
    \A i \in Slots, a \in Applys, sc \in Scales :
        LET k == Keyed(shapes[i], a, sc)
            closed == k.K.fType \in {kEmpty, kRRect}
            part == StylePart(k.r.fInheritedKey, ParentCnt(k.K))
        IN  /\ KnownToBeClosed(k.K) = closed
            /\ (k.runs /\ k.r.fType = kPath /\ HasInheritedKey(k.r)) =>
                   /\ part = WriteKey(k.K.fStyle, a, sc, closed)
                   /\ Len(part) = KeySize(k.K.fStyle, a, closed)
                   /\ k.K.fType = kPath => part = WriteKey(k.K.fStyle, a, sc, FALSE)

\* a Path whose contours are all closed under a round-capped stroke, and the
\* Path that stroking it gave, whose key has the round cap that the
\* closed flag would have replaced
ClosedFlagWitness ==
    \E i, j \in Slots, sc \in Scales, g \in DerivedGens :
        /\ i # j
        /\ shapes[i].fType = kPath
        /\ shapes[i].fPath.closed
        /\ shapes[i].fStyle = MkStyle(NoPE, StrokeRound)
        /\ shapes[j] = ApplyStyle(shapes[i], kPathEffectAndStrokeRec, sc, g)
        /\ shapes[j].fType = kPath
        /\ StylePart(shapes[j].fInheritedKey, 1)
             = WriteKey(shapes[i].fStyle, kPathEffectAndStrokeRec, sc, FALSE)
        /\ WriteKey(shapes[i].fStyle, kPathEffectAndStrokeRec, sc, FALSE)
             # WriteKey(shapes[i].fStyle, kPathEffectAndStrokeRec, sc, TRUE)

\* C18: whenever applyStyle, on a reachable parent, has the key-reference
\* shape write its geometry key, that shape has no inherited key and a
\* positive unstyledKeySize(), the three assertions of writeUnstyledKey
\* hold, and the words it writes fit the parentCnt + styleCnt buffer, of
\* which no word is left unwritten.
WritePreconditionKept ==
    \A i \in Slots, a \in Applys, sc \in Scales :
        LET k == Keyed(shapes[i], a, sc)
            key == k.r.fInheritedKey
        IN  (k.runs /\ CallsWriteUnstyledKey(k.r, k.K, a)) =>
                /\ ~HasInheritedKey(k.K)
                /\ UnstyledKeySize(k.K) > 0
                /\ WriteUnstyledKeyAsserts(k.K)
                /\ Len(WriteUnstyledKey(k.K)) <= Len(key)
                /\ Len(key) = ParentCnt(k.K) + StyleCnt(k.K, a)
                /\ SubSeq(key, 1, Len(WriteUnstyledKey(k.K))) = WriteUnstyledKey(k.K)
                /\ \A n \in 1..Len(key) : key[n] # kUnwritten

\* a volatile Path under a dash whose output is a rounded rect: the key
\* reference is the rounded rect, which wrote its geometry key into the
\* result's, and not the volatile parent
WritePreconditionWitness ==
    \E i, j \in Slots, sc \in Scales, g \in DerivedGens :
        /\ i # j
        /\ shapes[i].fType = kPath
        /\ shapes[i].fPath.vol
        /\ EffectGivesRRect(shapes[i], sc)
        /\ shapes[j] = ApplyStyle(shapes[i], kPathEffectAndStrokeRec, sc, g)
        /\ CallsWriteUnstyledKey(shapes[j],
                                 KeyReference(shapes[i], kPathEffectAndStrokeRec, sc, g),
                                 kPathEffectAndStrokeRec)
        /\ HasInheritedKey(shapes[j])
        /\ ~shapes[j].fPath.vol

(***************************************************************************)
(* Invariants of the reachable shapes.                                     *)
(***************************************************************************)
\* C19: in every reachable state every shape is canonical for its own
\* style: it holds path storage exactly when its variant is Path, and the
\* path of a Path is not empty, not exactly a rounded rect or an oval, and
\* exactly a rectangle only if the rectangle is open and the style has a
\* path effect or is not a plain fill.
CanonicalForOwnStyle ==
    \A i \in Slots :
        LET sh == shapes[i]
        IN  /\ sh.fPath # NoPath <=> sh.fType = kPath
            /\ sh.fType = kPath =>
                   /\ sh.fPath.kind \in {"rect", "general"}
                   /\ sh.fPath.kind = "rect" =>
                          ~sh.fPath.closed /\ ~PlainFill(sh.fStyle)
                   /\ AttemptToReduceFromPathImpl(sh.fPath, sh.fStyle.pe,
                                                  sh.fStyle.rec).type = kPath

\* the rounded rect that applyStyle reduced the outset of a rectangle to,
\* without path storage, next to a Path that holds an open rectangle under
\* a dash
CanonicalWitness ==
    \E i, j \in Slots :
        /\ shapes[i].fType = kRRect
        /\ shapes[i].fRRect = SetRect(kSide + kWidth)
        /\ shapes[i].fPath = NoPath
        /\ shapes[j].fType = kPath
        /\ shapes[j].fPath.kind = "rect"
        /\ IsDashed(shapes[j].fStyle)

\* C20: for every shape S and scale sc, the style of
\* T = applyStyle(S, kPathEffectAndStrokeRec, sc) has no path effect and no
\* stroke left to apply, so applying the whole style to T takes the
\* short-circuit and gives T's variant, geometry, style and unstyled key
\* again; and the style of applyStyle(S, kPathEffectOnly, sc) has no path
\* effect.
FullApplicationBakesStyle ==
    \A i \in Slots, sc \in Scales :
        LET T == ApplyStyle(shapes[i], kPathEffectAndStrokeRec, sc, nextGen)
            TT == ApplyStyle(T, kPathEffectAndStrokeRec, sc, nextGen + 1)
            E == ApplyStyle(shapes[i], kPathEffectOnly, sc, nextGen)
        IN  /\ T.fStyle.pe = NoPE
            /\ ~NeedToApply(T.fStyle.rec)
            /\ ~Applies(T.fStyle)
            /\ NoOp(T, kPathEffectAndStrokeRec)
            /\ SameValue(TT, T)
            /\ KeyOf(TT) = KeyOf(T)
            /\ E.fStyle.pe = NoPE

\* a Path under a dash and a stroke, and the Path with an inherited key and
\* a style with nothing left to apply that applying the whole style gave
BakedStyleWitness ==
    \E i, j \in Slots, sc \in Scales, g \in DerivedGens :
        /\ i # j
        /\ shapes[i].fType = kPath
        /\ IsDashed(shapes[i].fStyle)
        /\ NeedToApply(shapes[i].fStyle.rec)
        /\ shapes[j] = ApplyStyle(shapes[i], kPathEffectAndStrokeRec, sc, g)
        /\ shapes[j].fType = kPath
        /\ HasInheritedKey(shapes[j])
        /\ ~Applies(shapes[j].fStyle)
        /\ ApplyStyle(shapes[j], kPathEffectAndStrokeRec, sc, nextGen) = shapes[j]

====
